---- MODULE Spec2Model ----
(***************************************************************************)
(* Model of worker.js: the edge gateway that proxies the certification     *)
(* table of the upstream data service as four JSON endpoints and serves    *)
(* the static single-page application for every other path.                *)
(*                                                                         *)
(* One behaviour is one invocation of the exported fetch handler.  The     *)
(* request, the disposition of the upstream data service and the           *)
(* evaluation instant are chosen in Init; the answers of the static asset  *)
(* host are chosen when the handler asks for them.                         *)
(*                                                                         *)
(* JavaScript strings are sequences of UTF-16 code units (naturals), so    *)
(* that toLowerCase, includes, substring, the relational operators and     *)
(* Date parsing are computed rather than assumed.  Null (JSON null, or a   *)
(* field that is absent) is a value that is no string.                     *)
(***************************************************************************)
EXTENDS Integers, Sequences, FiniteSets, TLC

VARIABLES request, nocodb, now, pc, response, thrown, upstreamCalls,
          assetResult, indexTry, indexCatch, allCertifications, idx,
          summary, monthlyData

vars == <<request, nocodb, now, pc, response, thrown, upstreamCalls,
          assetResult, indexTry, indexCatch, allCertifications, idx,
          summary, monthlyData>>

---------------------------------------------------------------------------
(* Bounds of the model. *)

\* Longest record list the upstream returns in the model.
MaxRecords == 2

---------------------------------------------------------------------------
(* JavaScript values. *)

\* null / undefined: no code unit is negative, so this is no string.
Null == <<-1>>

\* A value that `||`, `!` and `&&` treat as false: null, undefined or "".
Falsy(v) == v = Null \/ v = <<>>

S_Unknown == <<85, 110, 107, 110, 111, 119, 110>>  \* "Unknown"
S_Active == <<65, 99, 116, 105, 118, 101>>  \* "Active"
S_Expired == <<69, 120, 112, 105, 114, 101, 100>>  \* "Expired"
S_LapsedEthics == <<76, 97, 112, 115, 101, 100, 45, 69, 116, 104, 105, 99, 115>>  \* "Lapsed-Ethics"
S_lapsed == <<108, 97, 112, 115, 101, 100>>  \* "lapsed"
S_ethics == <<101, 116, 104, 105, 99, 115>>  \* "ethics"
S_null == <<110, 117, 108, 108>>  \* "null"
S_CRS == <<67, 82, 83>>  \* "CRS"
S_CFRS == <<67, 70, 82, 83>>  \* "CFRS"
S_Erie == <<69, 114, 105, 101>>  \* "Erie"
D_May02 == <<50, 48, 50, 52, 45, 48, 53, 45, 48, 50>>  \* "2024-05-02"
D_Jun01 == <<50, 48, 50, 52, 45, 48, 54, 45, 48, 49>>  \* "2024-06-01"
D_Jul01 == <<50, 48, 50, 52, 45, 48, 55, 45, 48, 49>>  \* "2024-07-01"
D_US_Jun15 == <<48, 54, 47, 49, 53, 47, 50, 48, 50, 52>>  \* "06/15/2024"
S_A == <<65>>  \* "A"
S_a == <<97>>  \* "a"
S_b == <<98>>  \* "b"
S_0 == <<48>>  \* "0"
S_1 == <<49>>  \* "1"
S_2 == <<50>>  \* "2"
S_7 == <<55>>  \* "7"
S_10 == <<49, 48>>  \* "10"
S_11 == <<49, 49>>  \* "11"
S_asc == <<97, 115, 99>>  \* "asc"
S_desc == <<100, 101, 115, 99>>  \* "desc"

\* String.prototype.toLowerCase on the ASCII range: A..Z (65..90) map to a..z.
ToLowerCase(s) == [i \in 1..Len(s) |-> IF s[i] >= 65 /\ s[i] <= 90 THEN s[i] + 32 ELSE s[i]]

\* String.prototype.includes: needle occurs in hay as a contiguous run.
Includes(hay, needle) ==
    \E off \in 0..Len(hay) :
        /\ off + Len(needle) <= Len(hay)
        /\ SubSeq(hay, off + 1, off + Len(needle)) = needle

\* String.prototype.substring(0, n).
Substring0(s, n) == SubSeq(s, 1, IF Len(s) < n THEN Len(s) ELSE n)

\* The relational `<` of two strings: code unit by code unit, a proper
\* prefix being smaller.
StrLess(a, b) ==
    \E k \in 1..(Len(b)) :
        /\ k <= Len(a) + 1
        /\ SubSeq(a, 1, k - 1) = SubSeq(b, 1, k - 1)
        /\ (k = Len(a) + 1 \/ a[k] < b[k])

IsDigit(c) == c >= 48 /\ c <= 57

\* The number a run of decimal digits denotes.
RECURSIVE DigitsValue(_)
DigitsValue(s) ==
    IF s = <<>> THEN 0
    ELSE 10 * DigitsValue(SubSeq(s, 1, Len(s) - 1)) + (s[Len(s)] - 48)

AllDigits(s) == \A i \in 1..Len(s) : IsDigit(s[i])

\* A field of a record; a field the record lacks reads as undefined.
Field(cert, f) == IF f \in DOMAIN cert THEN cert[f] ELSE Null

\* Sequences over S of length at most n.
SeqUpTo(S, n) == UNION {[1..k -> S] : k \in 0..n}

---------------------------------------------------------------------------
(* Requests and responses. *)

\* A path is its segments: <<"api", "summary">> is /api/summary, <<>> is /.
ApiPaths == {<<"api", "certifications">>, <<"api", "summary">>,
             <<"api", "monthly-trends">>, <<"api", "table-data">>,
             <<"api", "xyz">>}
StaticPaths == {<<>>, <<"dashboard">>, <<"api">>}
Methods == {"GET", "POST", "OPTIONS"}

\* url.pathname.startsWith('/api/')
IsApiPath(path) == Len(path) >= 2 /\ path[1] = "api"

NoParams == [draw |-> Null, start |-> Null, length |-> Null, search |-> Null,
             column |-> Null, dir |-> Null]

Pending == [kind |-> "pending", status |-> 0, ctype |-> "", cors |-> FALSE,
            body |-> [tag |-> "none"]]

\* new Response(JSON.stringify(body), { status, headers }) with the API headers.
JsonResponse(status, body) ==
    [kind |-> "response", status |-> status, ctype |-> "application/json",
     cors |-> TRUE, body |-> body]

\* The promise the handler returned is rejected: no Response object exists.
Rejected(message) ==
    [kind |-> "rejected", status |-> 0, ctype |-> "", cors |-> FALSE,
     body |-> [tag |-> "exception", message |-> message]]

ErrorEnvelope(message) ==
    JsonResponse(500, [tag |-> "error", error |-> "Internal Server Error",
                       details |-> message])

\* The SPA entry document, forced to 200.
IndexDocument ==
    [kind |-> "response", status |-> 200, ctype |-> "text/html", cors |-> FALSE,
     body |-> [tag |-> "index.html"]]

\* The static asset host's own response, passed through.
AssetResponse(status) ==
    [kind |-> "response", status |-> status, ctype |-> "asset", cors |-> FALSE,
     body |-> [tag |-> "asset"]]

StaticError ==
    [kind |-> "response", status |-> 500, ctype |-> "text/plain", cors |-> FALSE,
     body |-> [tag |-> "text", text |-> "Error serving static content"]]

---------------------------------------------------------------------------
(* Dates. *)

\* An instant's calendar year and zero-based month, as Date.getFullYear and
\* Date.getMonth give them (the runtime's time zone is UTC).
Instants == {[year |-> 2024, month |-> 5]}

InvalidDate == [valid |-> FALSE, year |-> 0, month |-> 0]

\* new Date(str) for the two shapes the engine's parser is given here: the
\* ISO date "YYYY-MM-DD" and the legacy "MM/DD/YYYY"; anything else is an
\* Invalid Date, whose getters give NaN.
ParseDate(s) ==
    IF /\ Len(s) = 10 /\ s[5] = 45 /\ s[8] = 45
       /\ AllDigits(SubSeq(s, 1, 4)) /\ AllDigits(SubSeq(s, 6, 7))
       /\ AllDigits(SubSeq(s, 9, 10))
       /\ DigitsValue(SubSeq(s, 6, 7)) \in 1..12
    THEN [valid |-> TRUE, year |-> DigitsValue(SubSeq(s, 1, 4)),
          month |-> DigitsValue(SubSeq(s, 6, 7)) - 1]
    ELSE IF /\ Len(s) = 10 /\ s[3] = 47 /\ s[6] = 47
            /\ AllDigits(SubSeq(s, 1, 2)) /\ AllDigits(SubSeq(s, 4, 5))
            /\ AllDigits(SubSeq(s, 7, 10))
            /\ DigitsValue(SubSeq(s, 1, 2)) \in 1..12
    THEN [valid |-> TRUE, year |-> DigitsValue(SubSeq(s, 7, 10)),
          month |-> DigitsValue(SubSeq(s, 1, 2)) - 1]
    ELSE InvalidDate

\* n written with exactly w decimal digits.
RECURSIVE Digits(_, _)
Digits(n, w) == IF w = 0 THEN <<>> ELSE Append(Digits(n \div 10, w - 1), 48 + (n % 10))

\* new Date().toISOString(): "YYYY-MM-..." (the rest is cut off by the caller).
ToISOString(t) == Digits(t.year, 4) \o <<45>> \o Digits(t.month + 1, 2) \o <<45>>

\* getMonthEntry
GetMonthEntry(dateStr) == IF Falsy(dateStr) THEN Null ELSE Substring0(dateStr, 7)

---------------------------------------------------------------------------
(* The upstream data service. *)

SummaryRecords ==
    {[CREDENTIAL |-> c, COUNTY |-> o, CITY |-> t] :
        c \in {Null, S_CRS, S_CFRS}, o \in {Null, S_Erie}, t \in {Null, S_Erie}}

\* Records with the four fields the trend rollup reads.  A record without an
\* issue date is given no credential: the rollup reads the credential only
\* to count an issue.
TrendRecords ==
    {r \in {("CREDENTIAL" :> c) @@ ("ISSUE DATE" :> i) @@ ("EXP DATE" :> e) @@ ("STATUS" :> s) :
                c \in {Null, S_CRS}, i \in {Null, D_May02},
                e \in {Null, D_Jun01, D_Jul01, D_US_Jun15},
                s \in {Null, S_Active, S_Expired, S_LapsedEthics}} :
        r["ISSUE DATE"] # Null \/ r["CREDENTIAL"] = Null}

TableRecords == {[NAME |-> n] : n \in {Null, S_A, S_a, S_b}}

\* The lists the upstream may hold, by the endpoint that reads them (each
\* endpoint is given records with the fields it reads).  The full range of
\* lists is explored for GET; for the other methods, which take the same
\* path through the handlers or never read the list, one record is enough.
Snapshots(req) ==
    LET n == IF req.method = "GET" THEN MaxRecords ELSE 1
    IN IF req.path = <<"api", "summary">> THEN SeqUpTo(SummaryRecords, n)
       ELSE IF req.path = <<"api", "monthly-trends">> THEN SeqUpTo(TrendRecords, n)
       ELSE IF req.path \in {<<"api", "table-data">>, <<"api", "certifications">>}
       THEN SeqUpTo(TableRecords, n)
       ELSE {<<>>}

\* What the upstream does when asked: answers 2xx with {list}, answers with a
\* non-success status, or the connection fails.
Upstreams(req) ==
    {[mode |-> "ok", list |-> l] : l \in Snapshots(req)}
    \cup {[mode |-> m, list |-> <<>>] : m \in {"status", "transport"}}

TableParams ==
    [draw : {Null, S_7}, start : {Null, S_1, S_2}, length : {Null, S_0, S_1, S_2},
     search : {Null, S_a}, column : {Null, S_2, S_11}, dir : {Null, S_asc, S_desc}]

Requests ==
    {[method |-> m, path |-> p, params |-> NoParams] :
        m \in Methods, p \in ApiPaths \cup StaticPaths}
    \cup {[method |-> "GET", path |-> <<"api", "table-data">>, params |-> q] :
            q \in TableParams}

\* fetchFromNocoDB: the list on success, the Error thrown otherwise.
FetchFromNocoDB ==
    IF nocodb.mode = "ok" THEN [ok |-> TRUE, list |-> nocodb.list, message |-> ""]
    ELSE IF nocodb.mode = "status"
    THEN [ok |-> FALSE, list |-> <<>>, message |-> "Failed to fetch from NocoDB"]
    ELSE [ok |-> FALSE, list |-> <<>>, message |-> "fetch failed"]

---------------------------------------------------------------------------
(* Initial state. *)

EmptySummary == [total |-> 0, byCredential |-> <<>>, byCounty |-> <<>>, byCity |-> <<>>]

Init ==
    \E req \in Requests : \E up \in Upstreams(req) : \E t \in Instants :
        /\ request = req
        /\ nocodb = up
        /\ now = t
        /\ pc = "fetch"
        /\ response = Pending
        /\ thrown = ""
        /\ upstreamCalls = 0
        /\ assetResult = "none"
        /\ indexTry = "none"
        /\ indexCatch = "none"
        /\ allCertifications = <<>>
        /\ idx = 1
        /\ summary = EmptySummary
        /\ monthlyData = <<>>

---------------------------------------------------------------------------
(* The exported fetch handler: routing and static assets. *)

Respond(r) == /\ response' = r
              /\ pc' = "done"

\* fetch, lines 8-13: API paths go to handleApiRequest, whose promise is
\* returned as is; everything else is a static asset.
Route ==
    /\ pc = "fetch"
    /\ pc' = IF IsApiPath(request.path) THEN "api" ELSE "static"
    /\ UNCHANGED <<request, nocodb, now, response, thrown, upstreamCalls,
                   assetResult, indexTry, indexCatch, allCertifications, idx,
                   summary, monthlyData>>

\* fetch, lines 19-26 and 37-38: `await fetch(request)`.  The asset host
\* answers with some status or the fetch throws; a 404 goes on to the SPA
\* fallback, a thrown error to the catch block, anything else is returned.
\* (The second test of line 26, that the path is no API path, is true of
\* every request that gets here.)
ServeStatic ==
    /\ pc = "static"
    /\ \E outcome \in {"200", "404", "500", "throw"} :
        /\ assetResult' = outcome
        /\ IF outcome = "throw"
           THEN /\ pc' = "catch" /\ thrown' = "asset fetch failed" /\ UNCHANGED response
           ELSE IF outcome = "404"
           THEN /\ pc' = "fallback" /\ UNCHANGED <<response, thrown>>
           ELSE /\ Respond(AssetResponse(IF outcome = "200" THEN 200 ELSE 500))
                /\ UNCHANGED thrown
    /\ UNCHANGED <<request, nocodb, now, upstreamCalls, indexTry, indexCatch,
                   allCertifications, idx, summary, monthlyData>>

\* SpaFallback with the substitution forgotten: the 404 is returned even when
\* index.html was fetched.
SpaFallback_NoSubstitution ==
    /\ pc = "fallback"
    /\ \E outcome \in {"ok", "notok", "throw"} :
        /\ indexTry' = outcome
        /\ IF outcome \in {"ok", "notok"} THEN Respond(AssetResponse(404)) /\ UNCHANGED thrown
           ELSE /\ pc' = "catch" /\ thrown' = "index fetch failed" /\ UNCHANGED response
    /\ UNCHANGED <<request, nocodb, now, upstreamCalls, assetResult, indexCatch,
                   allCertifications, idx, summary, monthlyData>>

\* fetch, lines 29-37: `await fetch(origin + '/index.html')` inside the try.
\* ok: the index document with 200; not ok: the 404 `response` is returned;
\* thrown: the catch block runs.
SpaFallback ==
    /\ pc = "fallback"
    /\ \E outcome \in {"ok", "notok", "throw"} :
        /\ indexTry' = outcome
        /\ IF outcome = "ok" THEN Respond(IndexDocument) /\ UNCHANGED thrown
           ELSE IF outcome = "notok" THEN Respond(AssetResponse(404)) /\ UNCHANGED thrown
           ELSE /\ pc' = "catch" /\ thrown' = "index fetch failed" /\ UNCHANGED response
    /\ UNCHANGED <<request, nocodb, now, upstreamCalls, assetResult, indexCatch,
                   allCertifications, idx, summary, monthlyData>>

\* fetch, lines 38-49: the catch block fetches index.html again, outside any
\* try: ok gives the index document, not ok the plain-text 500, and an error
\* thrown here rejects the handler's promise.
StaticCatch ==
    /\ pc = "catch"
    /\ \E outcome \in {"ok", "notok", "throw"} :
        /\ indexCatch' = outcome
        /\ IF outcome = "ok" THEN Respond(IndexDocument) /\ UNCHANGED thrown
           ELSE IF outcome = "notok" THEN Respond(StaticError) /\ UNCHANGED thrown
           ELSE Respond(Rejected("index fetch failed")) /\ thrown' = "index fetch failed"
    /\ UNCHANGED <<request, nocodb, now, upstreamCalls, assetResult, indexTry,
                   allCertifications, idx, summary, monthlyData>>

---------------------------------------------------------------------------
(* handleApiRequest. *)

\* IsPreflight with the preflight test dropped.
IsPreflight_Never(method) == FALSE

\* Line 64: request.method === 'OPTIONS'.
IsPreflight(method) == method = "OPTIONS"

\* Lines 64-66: new Response(null, { headers }).
Preflight ==
    /\ pc = "api"
    /\ IsPreflight(request.method)
    /\ Respond(JsonResponse(200, [tag |-> "empty"]))
    /\ UNCHANGED <<request, nocodb, now, thrown, upstreamCalls, assetResult,
                   indexTry, indexCatch, allCertifications, idx, summary, monthlyData>>

\* Lines 69-80: the switch on url.pathname.
Endpoint(path) ==
    IF path = <<"api", "certifications">> THEN "certifications"
    ELSE IF path = <<"api", "summary">> THEN "summary"
    ELSE IF path = <<"api", "monthly-trends">> THEN "trends"
    ELSE IF path = <<"api", "table-data">> THEN "table"
    ELSE "default"

\* Lines 68-80: inside the try the handler's promise is returned, and the
\* default case answers 404.
Dispatch ==
    /\ pc = "api"
    /\ ~IsPreflight(request.method)
    /\ IF Endpoint(request.path) = "default"
       THEN Respond(JsonResponse(404, [tag |-> "notfound", error |-> "API endpoint not found"]))
       ELSE pc' = Endpoint(request.path) /\ UNCHANGED response
    /\ UNCHANGED <<request, nocodb, now, thrown, upstreamCalls, assetResult,
                   indexTry, indexCatch, allCertifications, idx, summary, monthlyData>>

\* Lines 70-77 write `return handler(...)`, not `return await handler(...)`:
\* the try block is left as soon as the promise is handed back, so the catch
\* of lines 81-84 is not around the handler when it fails.
HandlerAwaited == FALSE

\* An error thrown inside one of the four async handlers: the JSON error
\* envelope if the catch of lines 81-84 is around it, else the rejection of
\* the promise handleApiRequest returned.
Raise(message) ==
    /\ thrown' = message
    /\ Respond(IF HandlerAwaited THEN ErrorEnvelope(message) ELSE Rejected(message))

---------------------------------------------------------------------------
(* fetchAllCertifications and getCertificationsSummary. *)

\* Lines 110-113.
FetchAllCertifications ==
    /\ pc = "certifications"
    /\ upstreamCalls' = upstreamCalls + 1
    /\ IF FetchFromNocoDB.ok
       THEN /\ allCertifications' = FetchFromNocoDB.list
            /\ Respond(JsonResponse(200, [tag |-> "records", list |-> FetchFromNocoDB.list]))
            /\ UNCHANGED thrown
       ELSE Raise(FetchFromNocoDB.message) /\ UNCHANGED allCertifications
    /\ UNCHANGED <<request, nocodb, now, assetResult, indexTry, indexCatch, idx,
                   summary, monthlyData>>

\* GroupKey without the default.
GroupKey_Raw(v) == v

\* `x || 'Unknown'`, lines 126-128 and 152.
GroupKey(v) == IF Falsy(v) THEN S_Unknown ELSE v

\* `m[k] = (m[k] || 0) + 1`
Increment(m, k) == IF k \in DOMAIN m THEN [m EXCEPT ![k] = @ + 1] ELSE (k :> 1) @@ m

\* Lines 116-123: the fetch and the empty summary.
SummaryFetch ==
    /\ pc = "summary"
    /\ upstreamCalls' = upstreamCalls + 1
    /\ IF FetchFromNocoDB.ok
       THEN /\ allCertifications' = FetchFromNocoDB.list
            /\ summary' = [EmptySummary EXCEPT !.total = Len(FetchFromNocoDB.list)]
            /\ idx' = 1
            /\ pc' = "summary_loop"
            /\ UNCHANGED <<response, thrown>>
       ELSE Raise(FetchFromNocoDB.message) /\ UNCHANGED <<allCertifications, summary, idx>>
    /\ UNCHANGED <<request, nocodb, now, assetResult, indexTry, indexCatch, monthlyData>>

\* Lines 125-133: one iteration of the forEach.
SummaryEach ==
    /\ pc = "summary_loop"
    /\ idx <= Len(allCertifications)
    /\ LET cert == allCertifications[idx]
           credential == GroupKey(Field(cert, "CREDENTIAL"))
           county == GroupKey(Field(cert, "COUNTY"))
           city == GroupKey(Field(cert, "CITY"))
       IN summary' = [summary EXCEPT !.byCredential = Increment(@, credential),
                                     !.byCounty = Increment(@, county),
                                     !.byCity = Increment(@, city)]
    /\ idx' = idx + 1
    /\ UNCHANGED <<request, nocodb, now, pc, response, thrown, upstreamCalls,
                   assetResult, indexTry, indexCatch, allCertifications, monthlyData>>

\* Line 135.
SummaryRespond ==
    /\ pc = "summary_loop"
    /\ idx > Len(allCertifications)
    /\ Respond(JsonResponse(200, [tag |-> "summary", summary |-> summary]))
    /\ UNCHANGED <<request, nocodb, now, thrown, upstreamCalls, assetResult,
                   indexTry, indexCatch, allCertifications, idx, summary, monthlyData>>

---------------------------------------------------------------------------
(* getMonthlyTrends. *)

\* The bucket literal of lines 157, 165, 179 and 187.
NewBucket == [newlyCertified |-> <<>>, lapsed |-> 0, expired |-> 0, ethicsViolations |-> 0]

\* `if (!monthlyData[m]) monthlyData[m] = {...}`
EnsureBucket(md, m) == IF m \in DOMAIN md THEN md ELSE (m :> NewBucket) @@ md

\* ExpiredNow without the test of the status.
ExpiredNow_AnyStatus(expDate, status, today) ==
    LET expDt == ParseDate(expDate)
    IN expDt.valid /\ expDt.year = today.year /\ expDt.month = today.month

\* Lines 167-172: the expiration date falls in today's calendar year and
\* month (NaN equals nothing) and the status is not exactly 'Active'.
ExpiredNow(expDate, status, today) ==
    LET expDt == ParseDate(expDate)
    IN /\ expDt.valid
       /\ expDt.year = today.year
       /\ expDt.month = today.month
       /\ status # S_Active

\* Line 178: status && status.toLowerCase().includes('lapsed')
IsLapsed(status) == ~Falsy(status) /\ Includes(ToLowerCase(status), S_lapsed)

\* Line 185: status && status.toLowerCase().includes('ethics')
IsEthics(status) == ~Falsy(status) /\ Includes(ToLowerCase(status), S_ethics)

\* ViolationMonth that always takes the current month.
ViolationMonth_Current(issueMonth, today) == GetMonthEntry(ToISOString(today))

\* Line 186: issueMonth || getMonthEntry(new Date().toISOString())
ViolationMonth(issueMonth, today) ==
    IF ~Falsy(issueMonth) THEN issueMonth ELSE GetMonthEntry(ToISOString(today))

\* Lines 149-189: the body of the forEach for one record.
TrendRecord(md, cert, today) ==
    LET issueDate == Field(cert, "ISSUE DATE")
        expDate == Field(cert, "EXP DATE")
        status == Field(cert, "STATUS")
        credential == GroupKey(Field(cert, "CREDENTIAL"))
        issueMonth == GetMonthEntry(issueDate)
        md1 == IF ~Falsy(issueMonth)
               THEN [EnsureBucket(md, issueMonth) EXCEPT
                        ![issueMonth].newlyCertified = Increment(@, credential)]
               ELSE md
        expirationMonth == GetMonthEntry(expDate)
        md2 == IF ~Falsy(expirationMonth)
               THEN LET a == EnsureBucket(md1, expirationMonth)
                        b == IF ExpiredNow(expDate, status, today)
                             THEN [a EXCEPT ![expirationMonth].expired = @ + 1]
                             ELSE a
                    IN IF IsLapsed(status)
                       THEN [b EXCEPT ![expirationMonth].lapsed = @ + 1]
                       ELSE b
               ELSE md1
    IN IF IsEthics(status)
       THEN LET violationMonth == ViolationMonth(issueMonth, today)
            IN [EnsureBucket(md2, violationMonth) EXCEPT
                   ![violationMonth].ethicsViolations = @ + 1]
       ELSE md2

\* Object.keys(...).sort(): ascending by code units.
RECURSIVE SortedKeys(_)
SortedKeys(S) ==
    IF S = {} THEN <<>>
    ELSE LET m == CHOOSE x \in S : \A y \in S \ {x} : StrLess(x, y)
         IN <<m>> \o SortedKeys(S \ {m})

\* Lines 139-141.
TrendsFetch ==
    /\ pc = "trends"
    /\ upstreamCalls' = upstreamCalls + 1
    /\ IF FetchFromNocoDB.ok
       THEN /\ allCertifications' = FetchFromNocoDB.list
            /\ monthlyData' = <<>>
            /\ idx' = 1
            /\ pc' = "trends_loop"
            /\ UNCHANGED <<response, thrown>>
       ELSE Raise(FetchFromNocoDB.message) /\ UNCHANGED <<allCertifications, monthlyData, idx>>
    /\ UNCHANGED <<request, nocodb, now, assetResult, indexTry, indexCatch, summary>>

\* Lines 148-190: one iteration of the forEach.
TrendsEach ==
    /\ pc = "trends_loop"
    /\ idx <= Len(allCertifications)
    /\ monthlyData' = TrendRecord(monthlyData, allCertifications[idx], now)
    /\ idx' = idx + 1
    /\ UNCHANGED <<request, nocodb, now, pc, response, thrown, upstreamCalls,
                   assetResult, indexTry, indexCatch, allCertifications, summary>>

\* Lines 192-199: the buckets in ascending order of their keys.
TrendsRespond ==
    /\ pc = "trends_loop"
    /\ idx > Len(allCertifications)
    /\ Respond(JsonResponse(200, [tag |-> "trends",
                                  months |-> SortedKeys(DOMAIN monthlyData),
                                  data |-> monthlyData]))
    /\ UNCHANGED <<request, nocodb, now, thrown, upstreamCalls, assetResult,
                   indexTry, indexCatch, allCertifications, idx, summary, monthlyData>>

---------------------------------------------------------------------------
(* getTableData. *)

\* Line 231.
Columns == <<"Id", "SCRAPE ORDER", "NAME", "CITY", "CREDENTIAL", "NUMBER",
             "ISSUE DATE", "EXP DATE", "STATUS", "COUNTY", "REGION">>

\* parseInt of a string that starts with decimal digits: the value of the
\* leading run of digits.
RECURSIVE LeadingDigits(_)
LeadingDigits(s) ==
    IF s = <<>> \/ ~IsDigit(s[1]) THEN <<>> ELSE <<s[1]>> \o LeadingDigits(Tail(s))

ParseInt(s) == DigitsValue(LeadingDigits(s))

\* Line 232, columns[orderColumnIndex] with the index a string: the name as
\* a one-element sequence, or empty when the property is undefined.
SortColumnName(orderColumnIndex) ==
    IF /\ orderColumnIndex # <<>>
       /\ AllDigits(orderColumnIndex)
       /\ (Len(orderColumnIndex) = 1 \/ orderColumnIndex[1] # 48)
       /\ DigitsValue(orderColumnIndex) < Len(Columns)
    THEN <<Columns[DigitsValue(orderColumnIndex) + 1]>>
    ELSE <<>>

\* String(value): null prints as "null".
StringOf(v) == IF v = Null THEN S_null ELSE v

\* Lines 221-225: some value of the record contains the search value,
\* both case-folded.
Matches(cert, searchValue) ==
    \E f \in DOMAIN cert :
        Includes(ToLowerCase(StringOf(cert[f])), ToLowerCase(searchValue))

RECURSIVE FilterRecords(_, _)
FilterRecords(list, searchValue) ==
    IF list = <<>> THEN <<>>
    ELSE (IF Matches(Head(list), searchValue) THEN <<Head(list)>> ELSE <<>>)
         \o FilterRecords(Tail(list), searchValue)

\* Lines 236-237: String(a[sortColumnName] || '').toLowerCase()
SortKey(cert, column) ==
    LET v == Field(cert, column) IN ToLowerCase(IF Falsy(v) THEN <<>> ELSE v)

\* Lines 235-242: the comparator.
Compare(a, b, column, orderDirection) ==
    IF StrLess(SortKey(a, column), SortKey(b, column))
    THEN (IF orderDirection = S_asc THEN -1 ELSE 1)
    ELSE IF StrLess(SortKey(b, column), SortKey(a, column))
    THEN (IF orderDirection = S_asc THEN 1 ELSE -1)
    ELSE 0

\* x put into a sorted list behind every element that does not compare
\* greater than it.
RECURSIVE InsertStable(_, _, _, _)
InsertStable(sorted, x, column, orderDirection) ==
    IF sorted = <<>> THEN <<x>>
    ELSE IF Compare(Head(sorted), x, column, orderDirection) > 0
    THEN <<x>> \o sorted
    ELSE <<Head(sorted)>> \o InsertStable(Tail(sorted), x, column, orderDirection)

\* Array.prototype.sort with the comparator: a stable sort.
RECURSIVE SortRecords(_, _, _)
SortRecords(list, column, orderDirection) ==
    IF list = <<>> THEN <<>>
    ELSE InsertStable(SortRecords(SubSeq(list, 1, Len(list) - 1), column, orderDirection),
                      list[Len(list)], column, orderDirection)

\* Array.prototype.slice(from, to) for non-negative bounds.
Slice(list, from, to) == SubSeq(list, from + 1, IF to < Len(list) THEN to ELSE Len(list))

\* Line 207: parseInt(urlParams.get('start') || '0')
StartOf(params) == ParseInt(IF Falsy(params.start) THEN S_0 ELSE params.start)

\* Line 208: parseInt(urlParams.get('length') || '10')
LengthOf(params) == ParseInt(IF Falsy(params.length) THEN S_10 ELSE params.length)

\* Lines 209 and 217-226: the records left by the global search.
TableFiltered(params, list) ==
    LET searchValue == IF Falsy(params.search) THEN <<>> ELSE params.search
    IN IF searchValue # <<>> THEN FilterRecords(list, searchValue) ELSE list

\* Lines 228-244: the filtered records, sorted when a column and a direction
\* are given and the column exists.
TableSorted(params, list) ==
    LET name == SortColumnName(params.column)
    IN IF params.column # Null /\ ~Falsy(params.dir) /\ name # <<>>
       THEN SortRecords(TableFiltered(params, list), name[1], params.dir)
       ELSE TableFiltered(params, list)

\* Lines 246-257: the paging envelope.
TableEnvelope(params, list) ==
    [tag |-> "envelope", draw |-> params.draw, recordsTotal |-> Len(list),
     recordsFiltered |-> Len(TableFiltered(params, list)),
     data |-> Slice(TableSorted(params, list), StartOf(params),
                    StartOf(params) + LengthOf(params))]

\* Line 202 declares getTableData(request, env, headers) and line 203 reads
\* `url`, which is a parameter of handleApiRequest and of fetch only: no
\* binding of that name is in scope, and reading it throws a ReferenceError.
UrlInScope == FALSE

\* Lines 202-260.
GetTableData ==
    /\ pc = "table"
    /\ IF ~UrlInScope
       THEN /\ Raise("url is not defined")
            /\ UNCHANGED <<upstreamCalls, allCertifications>>
       ELSE /\ upstreamCalls' = upstreamCalls + 1
            /\ IF FetchFromNocoDB.ok
               THEN /\ allCertifications' = FetchFromNocoDB.list
                    /\ Respond(JsonResponse(200, TableEnvelope(request.params,
                                                               FetchFromNocoDB.list)))
                    /\ UNCHANGED thrown
               ELSE Raise(FetchFromNocoDB.message) /\ UNCHANGED allCertifications
    /\ UNCHANGED <<request, nocodb, now, assetResult, indexTry, indexCatch, idx,
                   summary, monthlyData>>

---------------------------------------------------------------------------
(* The specification. *)

Next ==
    \/ Route
    \/ ServeStatic
    \/ SpaFallback
    \/ StaticCatch
    \/ Preflight
    \/ Dispatch
    \/ FetchAllCertifications
    \/ SummaryFetch
    \/ SummaryEach
    \/ SummaryRespond
    \/ TrendsFetch
    \/ TrendsEach
    \/ TrendsRespond
    \/ GetTableData

Spec == Init /\ [][Next]_vars

Done == pc = "done"

---------------------------------------------------------------------------
(* Claims about the router and the static assets. *)

DataEndpoints == {"certifications", "summary", "trends", "table"}

IsDataRequest == /\ IsApiPath(request.path)
                 /\ request.method # "OPTIONS"
                 /\ Endpoint(request.path) \in DataEndpoints

\* C1: whenever an error was raised while a request to one of the four data
\* endpoints was handled, the request is answered with HTTP 500, the API
\* headers and the body {error: 'Internal Server Error', details: message};
\* the error never leaves handleApiRequest as a rejection.
C1_ErrorsAnsweredWith500 ==
    (Done /\ IsDataRequest /\ thrown # "") =>
        /\ response.kind = "response"
        /\ response.status = 500
        /\ response.cors
        /\ response.ctype = "application/json"
        /\ response.body = [tag |-> "error", error |-> "Internal Server Error",
                            details |-> thrown]

IsTableGet == /\ request.path = <<"api", "table-data">>
              /\ request.method = "GET"
              /\ nocodb.mode = "ok"

\* The number of records of the list that the search value selects.
NumMatching(list, search) ==
    IF Falsy(search) THEN Len(list)
    ELSE Cardinality({i \in 1..Len(list) : Matches(list[i], search)})

\* C2: a GET of /api/table-data whose upstream fetch succeeds is answered
\* with the paging envelope: draw is the request's draw parameter, the total
\* is the size of the upstream list, recordsFiltered the number of records
\* the search leaves, and data the page of the filtered and sorted records.
C2_TableEnvelopeReturned ==
    (Done /\ IsTableGet) =>
        /\ response.kind = "response"
        /\ response.status = 200
        /\ response.body.tag = "envelope"
        /\ response.body.draw = request.params.draw
        /\ response.body.recordsTotal = Len(nocodb.list)
        /\ response.body.recordsFiltered = NumMatching(nocodb.list, request.params.search)
        /\ response.body.data =
              Slice(TableSorted(request.params, nocodb.list), StartOf(request.params),
                    StartOf(request.params) + LengthOf(request.params))

\* C3 as stated: a non-API request whose asset resolution gave 404 is always
\* answered with the index document, text/html, status 200.
C3_MissAlwaysIndexDocument ==
    (Done /\ ~IsApiPath(request.path) /\ assetResult = "404") =>
        /\ response.kind = "response"
        /\ response.status = 200
        /\ response.ctype = "text/html"
        /\ response.body = [tag |-> "index.html"]

\* C3 as amended: a non-API request whose asset resolution gave 404 is
\* answered with the index document, text/html, status 200, when the fetch of
\* index.html answers ok; when that fetch answers with a non-ok status the
\* asset host's 404 response is what the client gets.
C3_MissIndexDocumentWhenIndexOk ==
    (Done /\ ~IsApiPath(request.path) /\ assetResult = "404") =>
        /\ indexTry = "ok" =>
              /\ response.kind = "response"
              /\ response.status = 200
              /\ response.ctype = "text/html"
              /\ response.body = [tag |-> "index.html"]
        /\ indexTry = "notok" =>
              /\ response.kind = "response"
              /\ response.status = 404
              /\ response.body = [tag |-> "asset"]

\* A miss on a client-side route was answered with the index document.
C3_Witness ==
    /\ Done
    /\ request.path = <<"dashboard">>
    /\ assetResult = "404"
    /\ indexTry = "ok"
    /\ response.status = 200
    /\ response.body = [tag |-> "index.html"]

\* C4: a non-API request whose asset fetch failed at the transport level ends
\* with a response: the index document with 200 when the fetch of index.html
\* answers ok, and the plain-text 500 when it answers not ok or fails itself.
C4_AssetFailureAlwaysAnswered ==
    (Done /\ ~IsApiPath(request.path) /\ assetResult = "throw") =>
        /\ response.kind = "response"
        /\ IF indexCatch = "ok"
           THEN response.status = 200 /\ response.body = [tag |-> "index.html"]
           ELSE /\ response.status = 500
                /\ response.ctype = "text/plain"

\* C5: an OPTIONS request to a path under /api/ issues no upstream call, and
\* is answered with an empty body and the CORS headers.
C5_PreflightNoUpstreamCall ==
    (IsApiPath(request.path) /\ request.method = "OPTIONS") =>
        /\ upstreamCalls = 0
        /\ pc \in {"fetch", "api", "done"}
        /\ Done =>
              /\ response.kind = "response"
              /\ response.cors
              /\ response.body = [tag |-> "empty"]

\* A preflight of a data endpoint was answered.
C5_Witness ==
    /\ Done
    /\ request.method = "OPTIONS"
    /\ request.path = <<"api", "summary">>
    /\ response.cors
    /\ response.body = [tag |-> "empty"]
    /\ upstreamCalls = 0

---------------------------------------------------------------------------
(* Claims about the summary. *)

RECURSIVE SumCounts(_)
SumCounts(m) ==
    IF DOMAIN m = {} THEN 0
    ELSE LET k == CHOOSE x \in DOMAIN m : TRUE
         IN m[k] + SumCounts([x \in DOMAIN m \ {k} |-> m[x]])

CountAt(m, k) == IF k \in DOMAIN m THEN m[k] ELSE 0

\* How many records of the list have the value v in field f.
NumWith(list, f, v) == Cardinality({i \in 1..Len(list) : Field(list[i], f) = v})

GroupingCounts(m, list, f) ==
    /\ SumCounts(m) = Len(list)
    /\ CountAt(m, S_Unknown) >= NumWith(list, f, Null)
    /\ \A k \in DOMAIN m \ {S_Unknown} : m[k] = NumWith(list, f, k)

\* C6: in the summary that is returned, total is the number of records of the
\* upstream list; in each of byCredential, byCounty and byCity the counts add
\* up to the number of records, every record whose field is null or absent is
\* counted under "Unknown", and every other key counts the records that have
\* it.
C6_SummaryCounts ==
    (Done /\ response.body.tag = "summary") =>
        LET sm == response.body.summary
        IN /\ sm.total = Len(nocodb.list)
           /\ GroupingCounts(sm.byCredential, nocodb.list, "CREDENTIAL")
           /\ GroupingCounts(sm.byCounty, nocodb.list, "COUNTY")
           /\ GroupingCounts(sm.byCity, nocodb.list, "CITY")

\* A summary of two records, one of them without a credential, was returned.
C6_Witness ==
    /\ Done
    /\ response.body.tag = "summary"
    /\ Len(nocodb.list) = 2
    /\ NumWith(nocodb.list, "CREDENTIAL", Null) = 1
    /\ NumWith(nocodb.list, "CITY", Null) = 2
    /\ CountAt(response.body.summary.byCredential, S_Unknown) = 1
    /\ CountAt(response.body.summary.byCity, S_Unknown) = 2

---------------------------------------------------------------------------
(* Claims about the table query. *)

Max(a, b) == IF a > b THEN a ELSE b
Min(a, b) == IF a < b THEN a ELSE b

\* C7: the page that a GET of /api/table-data returns is the run
\* [start, start+length) of the filtered and sorted records, so it has at most
\* length records, and exactly min(length, recordsFiltered - start), or none
\* when that is negative.
C7_PageIsSlice ==
    (Done /\ IsTableGet) =>
        /\ response.body.tag = "envelope"
        /\ LET start == StartOf(request.params)
               length == LengthOf(request.params)
               all == TableSorted(request.params, nocodb.list)
               data == response.body.data
           IN /\ Len(data) <= length
              /\ Len(data) = Max(0, Min(length, response.body.recordsFiltered - start))
              /\ \A i \in 1..Len(data) : data[i] = all[start + i]

\* The records of s whose sort key is k, in their order in s.
RECURSIVE WithKey(_, _, _)
WithKey(s, column, k) ==
    IF s = <<>> THEN <<>>
    ELSE (IF SortKey(Head(s), column) = k THEN <<Head(s)>> ELSE <<>>)
         \o WithKey(Tail(s), column, k)

IsRunOf(part, whole) ==
    \E off \in 0..Len(whole) :
        /\ off + Len(part) <= Len(whole)
        /\ part = SubSeq(whole, off + 1, off + Len(part))

\* C8: when a GET of /api/table-data names a sort column and a direction,
\* the records returned are in ascending ('asc') or descending ('desc') order
\* of the case-folded value of that column, a missing value counting as "",
\* and records with equal keys keep the order they came in; with a column
\* index out of range the records come back in the order of the filtered list.
C8_SortedAndStable ==
    (Done /\ IsTableGet /\ request.params.column # Null
          /\ request.params.dir \in {S_asc, S_desc}) =>
        /\ response.body.tag = "envelope"
        /\ LET data == response.body.data
               filtered == TableFiltered(request.params, nocodb.list)
               name == SortColumnName(request.params.column)
           IN IF name # <<>>
              THEN /\ \A i, j \in 1..Len(data) :
                        i < j =>
                          IF request.params.dir = S_asc
                          THEN ~StrLess(SortKey(data[j], name[1]), SortKey(data[i], name[1]))
                          ELSE ~StrLess(SortKey(data[i], name[1]), SortKey(data[j], name[1]))
                   /\ \A i \in 1..Len(data) :
                        IsRunOf(WithKey(data, name[1], SortKey(data[i], name[1])),
                                WithKey(filtered, name[1], SortKey(data[i], name[1])))
              ELSE IsRunOf(data, filtered)

---------------------------------------------------------------------------
(* Claims about the monthly trends. *)

EthicsAt(md, k) == IF k \in DOMAIN md THEN md[k].ethicsViolations ELSE 0
ExpiredAt(md, k) == IF k \in DOMAIN md THEN md[k].expired ELSE 0
LapsedAt(md, k) == IF k \in DOMAIN md THEN md[k].lapsed ELSE 0

\* "YYYY-MM" of an instant.
MonthKey(t) == Digits(t.year, 4) \o <<45>> \o Digits(t.month + 1, 2)

\* The status is a string in which the word occurs, letter case aside.
Mentions(status, word) ==
    /\ status # Null
    /\ \E off \in 0..Len(status) :
          /\ off + Len(word) <= Len(status)
          /\ \A i \in 1..Len(word) :
                \/ status[off + i] = word[i]
                \/ status[off + i] + 32 = word[i] /\ status[off + i] \in 65..90

\* The step that processes record idx of the trend rollup.
TrendStep == pc = "trends_loop" /\ idx' = idx + 1

Buckets == DOMAIN monthlyData \cup DOMAIN monthlyData'

\* C9: a record whose status mentions "ethics" adds exactly one to
\* ethicsViolations in exactly one bucket, that of its issue month if it has
\* an issue date and that of the current month if not; any other record
\* changes no ethicsViolations; and a record with neither an issue nor an
\* expiration date changes nothing at all, except, if its status mentions
\* "ethics", that one increment under the current month.
C9_EthicsOnePerRecord ==
    [][TrendStep =>
        LET cert == allCertifications[idx]
            issueDate == Field(cert, "ISSUE DATE")
            expDate == Field(cert, "EXP DATE")
            ethics == Mentions(Field(cert, "STATUS"), S_ethics)
            target == IF issueDate # Null THEN SubSeq(issueDate, 1, 7) ELSE MonthKey(now)
        IN /\ \A k \in Buckets :
                EthicsAt(monthlyData', k) =
                    EthicsAt(monthlyData, k) + (IF ethics /\ k = target THEN 1 ELSE 0)
           /\ (issueDate = Null /\ expDate = Null /\ ~ethics) => monthlyData' = monthlyData
           /\ (issueDate = Null /\ expDate = Null /\ ethics) =>
                /\ DOMAIN monthlyData' = DOMAIN monthlyData \cup {target}
                /\ \A k \in DOMAIN monthlyData \ {target} : monthlyData'[k] = monthlyData[k]
                /\ monthlyData'[target] =
                      [(IF target \in DOMAIN monthlyData THEN monthlyData[target]
                        ELSE [newlyCertified |-> <<>>, lapsed |-> 0, expired |-> 0,
                              ethicsViolations |-> 0])
                       EXCEPT !.ethicsViolations = @ + 1]
    ]_vars

\* Two records were processed: one with an issue date and an ethics status,
\* counted under its issue month, and one with no date at all and an ethics
\* status, counted under the current month.
C9_Witness ==
    /\ pc = "trends_loop"
    /\ idx = 3
    /\ Field(allCertifications[1], "ISSUE DATE") = D_May02
    /\ Field(allCertifications[1], "STATUS") = S_LapsedEthics
    /\ Field(allCertifications[2], "ISSUE DATE") = Null
    /\ Field(allCertifications[2], "EXP DATE") = Null
    /\ Field(allCertifications[2], "STATUS") = S_LapsedEthics
    /\ EthicsAt(monthlyData, SubSeq(D_May02, 1, 7)) = 1
    /\ EthicsAt(monthlyData, MonthKey(now)) = 1

\* The date parses to the instant's calendar year and month.
SameMonth(dateStr, t) ==
    /\ ParseDate(dateStr).valid
    /\ ParseDate(dateStr).year = t.year
    /\ ParseDate(dateStr).month = t.month

\* For the record processed in a step: expired and lapsed of the bucket of its
\* expiration month go up by one exactly under the two conditions, no other
\* bucket's expired or lapsed changes, and without an expiration date none does.
ExpiredLapsedStep ==
    TrendStep =>
        LET cert == allCertifications[idx]
            expDate == Field(cert, "EXP DATE")
            status == Field(cert, "STATUS")
            bucket == IF expDate # Null THEN SubSeq(expDate, 1, 7) ELSE Null
            expired == expDate # Null /\ SameMonth(expDate, now) /\ status # S_Active
            lapsed == expDate # Null /\ Mentions(status, S_lapsed)
        IN \A k \in Buckets :
              /\ ExpiredAt(monthlyData', k) =
                    ExpiredAt(monthlyData, k) + (IF expired /\ k = bucket THEN 1 ELSE 0)
              /\ LapsedAt(monthlyData', k) =
                    LapsedAt(monthlyData, k) + (IF lapsed /\ k = bucket THEN 1 ELSE 0)

\* Only the bucket of the evaluation instant's month has expired > 0.
OnlyCurrentMonthExpired ==
    \A k \in DOMAIN monthlyData : monthlyData[k].expired > 0 => k = MonthKey(now)

IsIsoDate(s) ==
    /\ Len(s) = 10
    /\ s[5] = 45
    /\ s[8] = 45
    /\ \A i \in {1, 2, 3, 4, 6, 7, 9, 10} : IsDigit(s[i])

\* A bucket has expired > 0 only if it is keyed by the first seven characters
\* of the expiration date of a processed record that expired in the
\* evaluation instant's month; for an ISO date that key is the instant's month.
ExpiredOnlyFromCurrentMonthDates ==
    \A k \in DOMAIN monthlyData :
        monthlyData[k].expired > 0 =>
            \E j \in 1..Len(allCertifications) :
                LET expDate == Field(allCertifications[j], "EXP DATE")
                IN /\ j < idx
                   /\ expDate # Null
                   /\ SubSeq(expDate, 1, 7) = k
                   /\ SameMonth(expDate, now)
                   /\ Field(allCertifications[j], "STATUS") # S_Active
                   /\ IsIsoDate(expDate) => k = MonthKey(now)

\* C10 as stated: the two conditions of the increments, and in consequence
\* only the bucket of the evaluation instant's month can have expired > 0.
C10_ExpiredOnlyInCurrentMonth ==
    [][ExpiredLapsedStep]_vars /\ []OnlyCurrentMonthExpired

\* C10 as amended: the two conditions of the increments; in consequence a
\* bucket can have expired > 0 only if it is keyed by the first seven
\* characters of the expiration date of a processed record whose date parses
\* to the evaluation instant's year and month and whose status is not
\* "Active", which is the instant's own month when the date is ISO formatted;
\* a record without an expiration date changes no expired or lapsed counter.
C10_ExpiredAndLapsed ==
    [][ExpiredLapsedStep]_vars /\ []ExpiredOnlyFromCurrentMonthDates

\* A record that expires in the current month with status "Lapsed-Ethics"
\* was processed and counted as expired and as lapsed.
C10_Witness ==
    /\ pc = "trends_loop"
    /\ idx = 2
    /\ Field(allCertifications[1], "EXP DATE") = D_Jun01
    /\ Field(allCertifications[1], "STATUS") = S_LapsedEthics
    /\ ExpiredAt(monthlyData, MonthKey(now)) = 1
    /\ LapsedAt(monthlyData, MonthKey(now)) = 1

====
